---- MODULE Spec2Model ----
\* The rule consistent-unordered-list-style of eslint-markdown, as a state
\* machine: the host parses a Markdown document, calls create() once per run,
\* calls the listItem handler once per list item, collects the reports and
\* applies their fixes to the text before linting again.
EXTENDS Naturals, Integers, Sequences, FiniteSets, TLC

\* ---------------------------------------------------------------- bounds
\* Number of nodes of a document tree, the root included. Nine nodes are
\* needed for four nested unordered lists (depths 0, 1, 2, 3).
MaxNodes == 9

\* ------------------------------------------------------------- constants
\* const SUBLIST_MARKERS = ['*', '+', '-'];   (1-based here, 0-based in JS)
SUBLIST_MARKERS == <<"*", "+", "-">>

\* meta.schema[0].properties.style.enum
Styles == {"consistent", "-", "*", "+", "sublist"}

\* JavaScript's null, the initial value of firstMarker under `consistent`.
Null == "null"

\* -------------------------------------------------------------- the state
VARIABLES
  tree,         \* the nodes of the document (sourceCode.ast), in pre-order
  text,         \* sourceCode.text, a sequence of characters
  layout,       \* while the document is written: bullet and indentation of each node
  style,        \* context.options[0].style of the current run
  firstMarker,  \* the closure variable `firstMarker` of create()
  pc,           \* "writing", "parsed" (no rule instance yet) or "visiting"
  visited,      \* the list items the handler has been called for in this run
  reports,      \* the problems reported in this run (the host orders them by location)
  calls,        \* the number of calls of context.report in this run
  fixed         \* the text is the output of the fixes of the previous run

vars ==
  <<tree, text, layout, style, firstMarker, pc, visited, reports, calls, fixed>>

\* ----------------------------------------------------- the document tree
\* An mdast tree is a sequence of nodes in document (pre-order) order. Node 1
\* is the root; parent = 0 stands for "no parent" (getParent returns
\* undefined); start is position.start.offset.
Node(ty, p, o, at) == [type |-> ty, parent |-> p, ordered |-> o, start |-> at]

\* What the writer of the document knows of a node: mark, the bullet of a
\* list, and inner, the indentation of the lines of the node's content.
Lay(m, in) == [mark |-> m, inner |-> in]

Max(S) == CHOOSE x \in S : \A y \in S : y <= x

Min(S) == CHOOSE x \in S : \A y \in S : x <= y

\* The proper ancestors of node i, root included.
RECURSIVE Ancestors(_)
Ancestors(i) ==
  IF tree[i].parent = 0 THEN {}
  ELSE {tree[i].parent} \cup Ancestors(tree[i].parent)

\* The nodes a further node of the pre-order can be a child of: the last node
\* and its ancestors.
RightPath == {Len(tree)} \cup Ancestors(Len(tree))

IsContainer(n) == n.type \in {"root", "listItem", "blockquote"}

\* The kind of the last child of container c so far: "none", "blockquote",
\* "ol" or the bullet of an unordered list.
LastChildKind(c) ==
  LET cs == {i \in 1..Len(tree) : tree[i].parent = c}
  IN  IF cs = {} THEN "none"
      ELSE LET k == Max(cs)
           IN  IF tree[k].type = "list"
               THEN (IF tree[k].ordered THEN "ol" ELSE layout[k].mark)
               ELSE tree[k].type

\* The characters that introduce a list item: "- ", "* ", "+ " or "1. ".
Bullet(ordered, m) == IF ordered THEN <<"1", ".", " ">> ELSE <<m, " ">>

Blank(n) == [k \in 1..n |-> " "]

\* Every list item is one line of the text: the indentation of its container,
\* its bullet, a paragraph "x" and a newline.
\* WriteItem(p): one more item in list p of the right path.
WriteItem(p) ==
  /\ pc = "writing"
  /\ Len(tree) + 1 <= MaxNodes
  /\ p \in RightPath
  /\ tree[p].type = "list"
  /\ LET in  == layout[p].inner
         tok == Bullet(tree[p].ordered, layout[p].mark)
     IN  /\ tree' = Append(tree, Node("listItem", p, FALSE, Len(text) + Len(in)))
         /\ layout' = Append(layout, Lay(layout[p].mark, in \o Blank(Len(tok))))
         /\ text' = text \o in \o tok \o <<"x", "\n">>
  /\ UNCHANGED <<style, firstMarker, pc, visited, reports, calls, fixed>>

\* WriteList(c, ordered, m): a new list with its first item in container c of
\* the right path. The parser starts a new list only where the previous
\* sibling is not a list of the same kind and bullet (such items would join
\* the previous list). A block quote that opens the document holds all of it.
WriteList(c, ordered, m) ==
  /\ pc = "writing"
  /\ Len(tree) + 2 <= MaxNodes
  /\ c \in RightPath
  /\ IsContainer(tree[c])
  /\ LastChildKind(c) \notin {"blockquote", IF ordered THEN "ol" ELSE m}
  /\ LET in  == layout[c].inner
         tok == Bullet(ordered, m)
         at  == Len(text) + Len(in)
     IN  /\ tree' = tree \o <<Node("list", c, ordered, at),
                              Node("listItem", Len(tree) + 1, FALSE, at)>>
         /\ layout' = layout \o <<Lay(m, in), Lay(m, in \o Blank(Len(tok)))>>
         /\ text' = text \o in \o tok \o <<"x", "\n">>
  /\ UNCHANGED <<style, firstMarker, pc, visited, reports, calls, fixed>>

\* WriteQuote(ordered, m): a block quote that opens the document, with a list
\* in it: "> - x".
WriteQuote(ordered, m) ==
  /\ pc = "writing"
  /\ Len(tree) = 1
  /\ Len(tree) + 3 <= MaxNodes
  /\ LET tok == Bullet(ordered, m)
     IN  /\ tree' = tree \o <<Node("blockquote", 1, FALSE, 0),
                              Node("list", 2, ordered, 2),
                              Node("listItem", 3, FALSE, 2)>>
         /\ layout' = layout \o <<Lay(">", <<">", " ">>),
                                  Lay(m, <<">", " ">>),
                                  Lay(m, <<">", " ">> \o Blank(Len(tok)))>>
         /\ text' = <<">", " ">> \o tok \o <<"x", "\n">>
  /\ UNCHANGED <<style, firstMarker, pc, visited, reports, calls, fixed>>

\* The host parses the text: from here on the rule is given tree and text.
Parse ==
  /\ pc = "writing"
  /\ pc' = "parsed"
  /\ layout' = <<>>
  /\ UNCHANGED <<tree, text, style, firstMarker, visited, reports, calls, fixed>>

\* A later document of the same host session: the same tree with every bullet
\* of the text replaced by the next one (ordered items and other text kept).
NextBullet(c) ==
  IF c = "-" THEN "*" ELSE IF c = "*" THEN "+" ELSE IF c = "+" THEN "-" ELSE c

ListItems == {i \in 1..Len(tree) : tree[i].type = "listItem"}

\* sourceCode.getParent(node): the parent node, 0 for undefined.
GetParent(n) == tree[n].parent

\* Variant of GetRangeStart: the range of the parent list instead of the item.
GetRangeStartOfList(n) == tree[tree[n].parent].start

\* sourceCode.getRange(node)[0]
GetRangeStart(n) == tree[n].start

\* sourceCode.text[offset]: JS offsets are 0-based, TLA+ sequences 1-based.
TextAt(offset) == text[offset + 1]

\* sourceCode.getLocFromIndex(index): 1-based line and column of an offset.
GetLocFromIndex(index) ==
  LET before == {k \in 1..index : text[k] = "\n"}
  IN  [line   |-> Cardinality(before) + 1,
       column |-> index - (IF before = {} THEN 0 ELSE Max(before)) + 1]

\* Variant of DepthWalk: every ancestor list counts, ordered or not.
RECURSIVE DepthWalkAllLists(_, _)
DepthWalkAllLists(current, depth) ==
  IF current = 0 THEN depth
  ELSE DepthWalkAllLists(tree[current].parent,
                         IF tree[current].type = "list"
                         THEN depth + 1 ELSE depth)

\* getListDepth(listNode): walk the parent chain from the list's parent to the
\* root, counting the nodes that are lists with ordered === false.
RECURSIVE DepthWalk(_, _)
DepthWalk(current, depth) ==
  IF current = 0 THEN depth
  ELSE DepthWalk(GetParent(current),
                 IF tree[current].type = "list" /\ tree[current].ordered = FALSE
                 THEN depth + 1 ELSE depth)

GetListDepth(listNode) == DepthWalk(GetParent(listNode), 0)

\* Variant of GetSublistMarker: the last marker for every deeper list, no cycle.
GetSublistMarkerClamped(depth) ==
  SUBLIST_MARKERS[IF depth >= 3 THEN 3 ELSE depth + 1]

\* getSublistMarker(depth): SUBLIST_MARKERS[depth % 3]
GetSublistMarker(depth) == SUBLIST_MARKERS[(depth % 3) + 1]

\* Variant of LockMarker: every item overwrites the locked marker.
LockMarkerLatest(currentMarker) == currentMarker

\* The value of firstMarker after the `consistent` branch of the handler.
LockMarker(currentMarker) ==
  IF firstMarker = Null THEN currentMarker ELSE firstMarker

\* Variant of ExpectedMarker: a fixed style is not enforced.
ExpectedMarkerUnchecked(parentList, currentMarker) ==
  IF style = "sublist" THEN GetSublistMarker(GetListDepth(parentList))
  ELSE IF style = "consistent" THEN LockMarker(currentMarker)
  ELSE currentMarker

\* The expected marker of the handler for an item of an unordered list.
ExpectedMarker(parentList, currentMarker) ==
  IF style = "sublist" THEN GetSublistMarker(GetListDepth(parentList))
  ELSE IF style = "consistent" THEN LockMarker(currentMarker)
  ELSE style

\* Variant of Report: the fix range is the character after the marker.
ReportNextChar(nodeStartOffset, expectedMarker) ==
  [loc       |-> [start |-> GetLocFromIndex(nodeStartOffset),
                  end   |-> GetLocFromIndex(nodeStartOffset + 1)],
   messageId |-> "style",
   data      |-> [style |-> expectedMarker],
   fix       |-> [range |-> <<nodeStartOffset + 1, nodeStartOffset + 2>>,
                  text  |-> expectedMarker]]

\* The argument of context.report.
Report(nodeStartOffset, expectedMarker) ==
  [loc       |-> [start |-> GetLocFromIndex(nodeStartOffset),
                  end   |-> GetLocFromIndex(nodeStartOffset + 1)],
   messageId |-> "style",
   data      |-> [style |-> expectedMarker],
   fix       |-> [range |-> <<nodeStartOffset, nodeStartOffset + 1>>,
                  text  |-> expectedMarker]]

\* Variant of Reported: the comparison of the markers is left out.
ReportedAlways(currentMarker, expectedMarker, nodeStartOffset) ==
  {Report(nodeStartOffset, expectedMarker)}

\* The reports the handler adds for an unordered item.
Reported(currentMarker, expectedMarker, nodeStartOffset) ==
  IF currentMarker # expectedMarker
  THEN {Report(nodeStartOffset, expectedMarker)}
  ELSE {}

\* Variant of InitialMarker: `consistent` starts from a default bullet.
InitialMarkerDash(s) == IF s = "consistent" THEN "-" ELSE s

\* Variant of InitialMarker: firstMarker lives outside create() and is not
\* reset for a new run.
InitialMarkerStale(s) == IF s = "consistent" THEN firstMarker ELSE s

\* The initial value of firstMarker: style === 'consistent' ? null : style
InitialMarker(s) == IF s = "consistent" THEN Null ELSE s

Done == pc = "visiting" /\ visited = ListItems

Init ==
  /\ tree = <<Node("root", 0, FALSE, 0)>>
  /\ text = <<>>
  /\ layout = <<Lay("", <<>>)>>
  /\ style = Null
  /\ firstMarker = Null
  /\ pc = "writing"
  /\ visited = {}
  /\ reports = {}
  /\ calls = 0
  /\ fixed = FALSE

\* create(context): a new rule instance for one run over the document. A run
\* on the output of the previous run's fixes keeps the configured style.
Create(s) ==
  /\ pc = "parsed"
  /\ fixed => s = style
  /\ style' = s
  /\ firstMarker' = InitialMarker(s)
  /\ pc' = "visiting"
  /\ visited' = {}
  /\ reports' = {}
  /\ calls' = 0
  /\ UNCHANGED <<tree, text, layout, fixed>>

\* Variant of IsOrdered: the test reads a field that is never set.
IsOrderedNever(parentList) == FALSE

\* parentList.ordered, the test of "Skip ordered lists".
IsOrdered(parentList) == tree[parentList].ordered

\* listItem(node): the handler, whole.
ListItem(node) ==
  /\ pc = "visiting"
  /\ node \in ListItems \ visited
  /\ visited' = visited \cup {node}
  /\ LET parentList == GetParent(node)
     IN  IF IsOrdered(parentList)
         THEN UNCHANGED <<firstMarker, reports, calls>>
         ELSE LET nodeStartOffset == GetRangeStart(node)
                  currentMarker   == TextAt(nodeStartOffset)
                  expectedMarker  == ExpectedMarker(parentList, currentMarker)
                  new == Reported(currentMarker, expectedMarker, nodeStartOffset)
              IN  /\ firstMarker' = IF style = "consistent"
                                    THEN LockMarker(currentMarker)
                                    ELSE firstMarker
                  /\ reports' = reports \cup new
                  /\ calls' = calls + Cardinality(new)
  /\ UNCHANGED <<tree, text, layout, style, pc, fixed>>

\* The host's traversal: list items in document (pre-order) order.
VisitNext ==
  \E node \in ListItems \ visited :
    /\ node = Min(ListItems \ visited)
    /\ ListItem(node)

\* A traversal that calls the handler for the list items in any order.
VisitAny == \E node \in ListItems \ visited : ListItem(node)

\* The text after the host applied the fixes of the reports: each fix replaces
\* the characters of its range. Character k (1-based) is at offset k - 1.
FixAt(k) ==
  LET hits == {r \in reports :
                 r.fix.range[1] <= k - 1 /\ k - 1 < r.fix.range[2]}
  IN  IF hits = {} THEN text[k] ELSE (CHOOSE r \in hits : TRUE).fix.text

\* The host parses the text it lints. In a text that differs from a parsed one
\* only in bullets, the list items and their offsets are the same; what the
\* bullets decide is which items make up one list: an item whose previous
\* sibling is a list of the same kind and bullet is an item of that list.
\* PrevSibling(t, l): the child before l under the same parent, 0 if none.
PrevSibling(t, l) ==
  LET cs == {k \in 1..(l - 1) : t[k].parent = t[l].parent}
  IN  IF cs = {} THEN 0 ELSE Max(cs)

\* List l of tree t is no list of its own in text txt: it continues the list
\* before it.
Joins(t, txt, l) ==
  /\ t[l].type = "list"
  /\ LET k == PrevSibling(t, l)
     IN  /\ k # 0
         /\ t[k].type = "list"
         /\ t[k].ordered = t[l].ordered
         /\ t[l].ordered \/ txt[t[k].start + 1] = txt[t[l].start + 1]

\* The list the items of list l belong to in text txt.
RECURSIVE JoinedTo(_, _, _)
JoinedTo(t, txt, l) ==
  IF Joins(t, txt, l) THEN JoinedTo(t, txt, PrevSibling(t, l)) ELSE l

\* The tree of text txt, given the tree t of a text with the same items: the
\* lists that continue their previous sibling are no nodes, their items are
\* children of the list they continue, and the nodes are numbered in pre-order.
Reparse(t, txt) ==
  LET gone   == {l \in 1..Len(t) : Joins(t, txt, l)}
      kept   == (1..Len(t)) \ gone
      at(j)  == j - Cardinality({l \in gone : l < j})
      par(j) == IF t[j].parent = 0 THEN 0
                ELSE at(JoinedTo(t, txt, t[j].parent))
  IN  [k \in 1..Cardinality(kept) |->
         LET j == CHOOSE i \in kept : at(i) = k
         IN  [t[j] EXCEPT !.parent = par(j)]]

\* The text with the fixes of the reports applied.
FixedText == [k \in 1..Len(text) |-> FixAt(k)]

\* The host applies the fixes and lints the fixed text again: it parses the
\* fixed text, so lists that now share a bullet with the list before them are
\* one list in the tree of the next run.
ApplyFixes ==
  /\ Done
  /\ reports # {}
  /\ text' = FixedText
  /\ tree' = Reparse(tree, text')
  /\ pc' = "parsed"
  /\ fixed' = TRUE
  /\ visited' = {}
  /\ reports' = {}
  /\ calls' = 0
  /\ UNCHANGED <<layout, style, firstMarker>>

\* The text of the next document: every bullet replaced by the next one.
RotatedText ==
  [k \in 1..Len(text) |->
     IF \E i \in ListItems : tree[i].start + 1 = k
     THEN NextBullet(text[k]) ELSE text[k]]

\* The host goes on to another document and parses it; nothing of the
\* finished run is reset until create() is called for it.
NextDocument ==
  /\ Done
  /\ text' = RotatedText
  /\ tree' = Reparse(tree, text')
  /\ pc' = "parsed"
  /\ fixed' = FALSE
  /\ style' = Null
  /\ visited' = {}
  /\ reports' = {}
  /\ calls' = 0
  /\ UNCHANGED <<layout, firstMarker>>

\* The documents the host is given.
Write ==
  /\ pc = "writing"
  /\ \/ \E p \in 1..Len(tree) : WriteItem(p)
     \/ \E c \in 1..Len(tree), m \in {"-", "*", "+"} : WriteList(c, FALSE, m)
     \/ \E c \in 1..Len(tree) : WriteList(c, TRUE, "1")
     \/ \E m \in {"-", "*", "+"} : WriteQuote(FALSE, m)
     \/ WriteQuote(TRUE, "1")
     \/ Parse

Next ==
  \/ Write
  \/ \E s \in Styles : Create(s)
  \/ VisitNext
  \/ ApplyFixes
  \/ NextDocument

Spec == Init /\ [][Next]_vars

\* The same program under a traversal that visits the list items in any
\* order, for the runs of style `sublist` over a document and over its fixed
\* text. With one style nothing of a run is left for the next document.
NextAnyOrder ==
  \/ Write
  \/ Create("sublist")
  \/ VisitAny
  \/ ApplyFixes

SpecAnyOrder == Init /\ [][NextAnyOrder]_vars

\* ------------------------------------------------------------ properties
\* Vocabulary of the properties, stated on the document alone.
Lists == {l \in 1..Len(tree) : tree[l].type = "list"}

UnorderedItems == {i \in ListItems : ~tree[tree[i].parent].ordered}

OrderedItems == ListItems \ UnorderedItems

\* The character of the text at the start offset of list item i.
MarkerOf(i) == text[tree[i].start + 1]

\* The unordered lists among the proper ancestors of node n.
UnorderedListsAbove(n) ==
  {a \in Ancestors(n) : tree[a].type = "list" /\ ~tree[a].ordered}

\* The depth of the list of item i.
DepthOf(i) == Cardinality(UnorderedListsAbove(tree[i].parent))

\* cycle[d mod 3] with cycle = ['*', '+', '-'].
Cycle(d) == IF d % 3 = 0 THEN "*" ELSE IF d % 3 = 1 THEN "+" ELSE "-"

\* The first unordered list item of the document.
FirstUnordered == Min(UnorderedItems)

\* The reports whose fix range starts at the start offset of item i.
ReportsOf(i) == {r \in reports : r.fix.range[1] = tree[i].start}

Flagged(i) == ReportsOf(i) # {}

\* Item i is flagged exactly when its marker differs from e, and then with e
\* as the expected style and as the replacement text.
FlaggedIffNot(i, e) ==
  /\ Flagged(i) <=> MarkerOf(i) # e
  /\ \A r \in ReportsOf(i) : r.data.style = e /\ r.fix.text = e

\* A step of the handler and the list item it visits.
IsVisit == pc = "visiting" /\ pc' = "visiting" /\ visited' # visited

VisitedNode == CHOOSE n \in visited' \ visited : TRUE

\* The step in which the host applies the fixes of a finished run.
IsApplyFixes == pc = "visiting" /\ pc' = "parsed" /\ fixed'

\* The step in which create() is called.
IsCreate == pc = "parsed" /\ pc' = "visiting"

\* What the rule reads of the tree: for every list item its start offset,
\* whether its list is ordered, and the depth of its list.
ItemFacts ==
  {<<tree[i].start, tree[tree[i].parent].ordered, DepthOf(i)>> : i \in ListItems}

C1_NoReports == fixed => (reports = {} /\ calls = 0)

C1_Keeps == IsApplyFixes => (ItemFacts' = ItemFacts /\ Len(text') = Len(text))

\* C1: the fixes replace one marker character each and leave the items, their
\* offsets, the kind of their lists and their depths as they were (lists that
\* now share a bullet with the list before them are parsed as one list), and a
\* run of the same style over the fixed document reports nothing, whatever the
\* style.
C1_Idempotent == []C1_NoReports /\ [][C1_Keeps]_vars

C1_Witness ==
  /\ fixed /\ Done
  /\ Cardinality(UnorderedItems) >= 3
  /\ \E i \in UnorderedItems : DepthOf(i) >= 1

\* C2: under style consistent and the pre-order traversal, the first unordered
\* item is never flagged, every other visited unordered item is flagged exactly
\* when its marker differs from the first one's, with that marker expected; and
\* the fixes make every unordered marker the first unordered marker of the
\* document they were computed for.
C2_Flags ==
  (style = "consistent" /\ pc = "visiting") =>
    \A i \in visited \cap UnorderedItems :
      /\ FlaggedIffNot(i, MarkerOf(FirstUnordered))
      /\ ~Flagged(FirstUnordered)

C2_Fixes ==
  (IsApplyFixes /\ style = "consistent") =>
    \A i \in UnorderedItems : text'[tree[i].start + 1] = MarkerOf(FirstUnordered)

\* C2: the flags of every state and the fixes of every ApplyFixes step follow
\* the first unordered marker under style consistent.
C2_Consistent == []C2_Flags /\ [][C2_Fixes]_vars

C2_Witness ==
  /\ style = "consistent" /\ Done /\ ~fixed
  /\ OrderedItems # {} /\ Min(ListItems) \in OrderedItems
  /\ \E i, j \in UnorderedItems :
       /\ i # FirstUnordered /\ ~Flagged(i)
       /\ Flagged(j) /\ DepthOf(j) >= 1

\* C3: under style sublist, in whatever order the items are visited, a visited
\* unordered item of depth d is flagged exactly when its marker differs from
\* cycle[d mod 3], with cycle[d mod 3] expected; the reports of a finished run
\* are those of the items whose marker differs from it; and the fixes make
\* every unordered marker cycle[d mod 3].
C3_Flags ==
  (style = "sublist" /\ pc = "visiting") =>
    /\ \A i \in visited \cap UnorderedItems : FlaggedIffNot(i, Cycle(DepthOf(i)))
    /\ calls = Cardinality({i \in visited \cap UnorderedItems :
                              MarkerOf(i) # Cycle(DepthOf(i))})
    /\ calls = Cardinality(reports)

C3_Fixes ==
  (IsApplyFixes /\ style = "sublist") =>
    \A i \in UnorderedItems : text'[tree[i].start + 1] = Cycle(DepthOf(i))

\* C3: the flags of every state and the fixes of every ApplyFixes step follow
\* cycle[d mod 3] under style sublist, in any visiting order.
C3_Sublist == []C3_Flags /\ [][C3_Fixes]_vars

C3_Witness ==
  /\ style = "sublist" /\ pc = "visiting"
  /\ \E j \in visited \cap UnorderedItems :
       /\ DepthOf(j) = 3 /\ Flagged(j)
       /\ \E i \in UnorderedItems \ visited : i < j
       /\ \E k \in visited \cap UnorderedItems :
            DepthOf(k) = 1 /\ MarkerOf(k) = "+" /\ ~Flagged(k)

\* C4: under a fixed style c, every visited unordered item, the first one
\* included, is flagged exactly when its marker differs from c, with c
\* expected, at every depth; and the fixes make every unordered marker c.
C4_Flags ==
  (style \in {"-", "*", "+"} /\ pc = "visiting") =>
    \A i \in visited \cap UnorderedItems : FlaggedIffNot(i, style)

C4_Fixes ==
  (IsApplyFixes /\ style \in {"-", "*", "+"}) =>
    \A i \in UnorderedItems : text'[tree[i].start + 1] = style

\* C4: the flags of every state and the fixes of every ApplyFixes step follow
\* the configured character under a fixed style.
C4_FixedStyle == []C4_Flags /\ [][C4_Fixes]_vars

C4_Witness ==
  /\ style = "+" /\ Done /\ ~fixed
  /\ Flagged(FirstUnordered)
  /\ \E i, j \in UnorderedItems :
       /\ ~Flagged(i) /\ DepthOf(i) >= 1
       /\ Flagged(j) /\ DepthOf(j) >= 2

\* C5: the visit of an item of an ordered list reports nothing and leaves the
\* locked marker as it was; no report is ever about an ordered item, and a
\* document without unordered items has no report.
C5_Step ==
  (IsVisit /\ VisitedNode \in OrderedItems) =>
    (reports' = reports /\ calls' = calls /\ firstMarker' = firstMarker)

C5_NoReport ==
  /\ \A i \in OrderedItems : ~Flagged(i)
  /\ UnorderedItems = {} => (reports = {} /\ calls = 0)

\* C5: items of ordered lists are never reported and their visits change
\* nothing of the run state.
C5_OrderedSkipped == []C5_NoReport /\ [][C5_Step]_vars

C5_Witness ==
  /\ style = "consistent" /\ pc = "visiting"
  /\ firstMarker = Null
  /\ visited # {} /\ visited \subseteq OrderedItems
  /\ UnorderedItems # {}

\* C6: getListDepth(list) is the number of proper ancestors of the list that
\* are unordered lists, for every list of every document.
C6_Depth ==
  \A l \in Lists : GetListDepth(l) = Cardinality(UnorderedListsAbove(l))

C6_Witness ==
  /\ style = "sublist" /\ Done
  /\ \E l \in Lists :
       /\ ~tree[l].ordered
       /\ GetListDepth(l) = 1
       /\ \E a \in Ancestors(l) : tree[a].type = "list" /\ tree[a].ordered
       /\ \E a \in Ancestors(l) : tree[a].type = "blockquote"
       /\ \E a \in Ancestors(l) : tree[a].type = "listItem"

\* C7: the visit of an item of an unordered list reports exactly when the
\* character at the item's start offset differs from the expected marker, at
\* most once, with location and fix range [startOffset, startOffset + 1) and
\* with the expected marker as expected style and as replacement text.
ExpectedOf(i) ==
  IF style = "sublist" THEN Cycle(DepthOf(i))
  ELSE IF style = "consistent"
       THEN (IF firstMarker = Null THEN MarkerOf(i) ELSE firstMarker)
       ELSE style

C7_Step ==
  (IsVisit /\ VisitedNode \in UnorderedItems) =>
    LET i   == VisitedNode
        at  == tree[i].start
        new == reports' \ reports
    IN  /\ reports \subseteq reports'
        /\ calls' = (IF MarkerOf(i) # ExpectedOf(i) THEN calls + 1 ELSE calls)
        /\ Cardinality(new) = calls' - calls
        /\ \A r \in new :
             /\ r.fix.range = <<at, at + 1>>
             /\ r.loc.start = GetLocFromIndex(at)
             /\ r.loc.end = GetLocFromIndex(at + 1)
             /\ r.loc.end.line = r.loc.start.line
             /\ r.loc.end.column = r.loc.start.column + 1
             /\ r.data.style = ExpectedOf(i)
             /\ r.fix.text = ExpectedOf(i)
             /\ r.messageId = "style"

\* C7: every step of the handler on an item of an unordered list reports
\* exactly when the marker differs from the expected one, as stated above.
C7_ReportIffDiffers == [][C7_Step]_vars

C7_Witness ==
  /\ pc = "visiting"
  /\ calls >= 2
  /\ \E i \in visited \cap UnorderedItems : ~Flagged(i)
  /\ \E r \in reports : r.loc.start.line >= 3 /\ r.loc.start.column >= 3

\* C8: the fix ranges of the reports of a run are pairwise disjoint, each is
\* the one character at the start of exactly one list item, a visited item of
\* an unordered list, and no two calls of context.report gave the same report.
RangesDisjoint(r1, r2) ==
  r1.fix.range[2] <= r2.fix.range[1] \/ r2.fix.range[2] <= r1.fix.range[1]

C8_NoOverlap ==
  /\ \A r1, r2 \in reports : r1 # r2 => RangesDisjoint(r1, r2)
  /\ \A r \in reports :
       /\ r.fix.range[2] = r.fix.range[1] + 1
       /\ Cardinality({i \in ListItems : tree[i].start = r.fix.range[1]}) = 1
       /\ \E i \in visited \cap UnorderedItems : tree[i].start = r.fix.range[1]
  /\ Cardinality(reports) = calls
  /\ calls <= Cardinality(visited \cap UnorderedItems)

C8_Witness ==
  /\ Done
  /\ Cardinality(reports) >= 4
  /\ \E i, j \in UnorderedItems :
       Flagged(i) /\ Flagged(j) /\ tree[j].parent = tree[i].parent /\ i # j

\* C9: within a run a visit changes the locked marker only under style
\* consistent, only while it is unset, only when the item is of an unordered
\* list, and then sets it to that item's marker; once an unordered item has
\* been visited under consistent the marker is set, so it is written once.
C9_Step ==
  IsVisit =>
    /\ firstMarker' # firstMarker =>
         /\ style = "consistent"
         /\ firstMarker = Null
         /\ VisitedNode \in UnorderedItems
         /\ visited \cap UnorderedItems = {}
         /\ firstMarker' = MarkerOf(VisitedNode)
    /\ (style = "consistent" /\ VisitedNode \in UnorderedItems) =>
         firstMarker' # Null

C9_Locked ==
  (pc = "visiting" /\ style = "consistent") =>
    (firstMarker = Null <=> visited \cap UnorderedItems = {})

\* C9: the locked marker is set at the visit of the first unordered item under
\* consistent and changed by no other visit.
C9_WrittenOnce == []C9_Locked /\ [][C9_Step]_vars

C9_Witness ==
  /\ style = "consistent" /\ Done
  /\ firstMarker = "*"
  /\ \E i, j \in UnorderedItems : MarkerOf(i) = "-" /\ MarkerOf(j) = "+"
  /\ OrderedItems # {}

\* C10: create() starts every run with the locked marker unset (the style
\* itself under the other styles), whatever an earlier run left, and the
\* reports of a finished run are a function of its style and document alone.
ExpectedAlone(i) ==
  IF style = "sublist" THEN Cycle(DepthOf(i))
  ELSE IF style = "consistent" THEN MarkerOf(FirstUnordered)
  ELSE style

C10_Create ==
  IsCreate =>
    firstMarker' = (IF style' = "consistent" THEN Null ELSE style')

C10_Reports ==
  Done =>
    /\ \A i \in UnorderedItems : FlaggedIffNot(i, ExpectedAlone(i))
    /\ calls = Cardinality({i \in UnorderedItems : MarkerOf(i) # ExpectedAlone(i)})
    /\ calls = Cardinality(reports)

\* C10: no run starts from, or reports against, a marker locked by an earlier
\* run.
C10_NoLeak == []C10_Reports /\ [][C10_Create]_vars

C10_Witness ==
  /\ pc = "parsed" /\ ~fixed
  /\ firstMarker = "-"
  /\ UnorderedItems # {}
  /\ MarkerOf(FirstUnordered) = "*"
  /\ \E i \in UnorderedItems : MarkerOf(i) = "-"
====
